---------------------------- MODULE Spec2Model ----------------------------
(***************************************************************************)
(* A model of jonahobw/aicas: experiments.py (class Experiment,            *)
(* check_folder_structure) and experiment_utils.py (email,                 *)
(* generate_permutations).                                                 *)
(*                                                                         *)
(* Python values are modelled as follows.                                  *)
(*   - a str is a string, read as the sequence of its characters;          *)
(*   - an optional value is None (the empty set) or Some(v) ({v});         *)
(*   - a dict is a function from its keys to its values, an insertion      *)
(*     ordered dict (where popitem reads the order) a sequence of          *)
(*     <<key, value>> pairs;                                               *)
(*   - a raised exception is the name of its class in a variable.          *)
(*                                                                         *)
(* The module holds these specifications over one set of variables:       *)
(*   SpecPerm  generate_permutations, one while-iteration per step;        *)
(*   SpecCsv   N processes in Experiment.update_csv on one log file;       *)
(*   SpecCsvSeq the same calls, one at a time;                             *)
(*   SpecPath  Experiment.__init__ / generate_paths /                      *)
(*             check_folder_structure;                                     *)
(*   Spec      Experiment.run and the stages it calls;                     *)
(*   SpecLog   Experiment.update_csv, the record and the lines written;    *)
(*   SpecSnap  Experiment.save_variables, the snapshot files.              *)
(* A specification leaves the variables of the others at their idle value. *)
(***************************************************************************)
EXTENDS Integers, Sequences, FiniteSets, TLC

VARIABLES
    \* generate_permutations
    gp_input,       \* the argument list_args as passed by the caller
    list_args,      \* list_args, shrinking with every popitem()
    permutations,   \* the local list permutations
    gp_pc,          \* "idle" | "loop" | "returned"
    \* update_csv on a shared log
    file,           \* the log file: Absent, or the sequence of its lines
    procs,          \* per process: its position in update_csv and its handle
    \* Experiment.__init__ / generate_paths / check_folder_structure
    args,           \* the arguments of the latest Experiment(...) call
    exp,            \* the fields of the Experiment object (self.*)
    orig,           \* the configuration the model folder was first built from
    dirs,           \* the directories on disk, as paths relative to the root
    ctor_pc,        \* "idle" | "new" | "failed" | "built" | "resumed" | "checked"
    err,            \* the exception that left the constructor or run(), or NoError
    \* Experiment.run
    pc,             \* the position in run(), or how a direct prune() call ended
    attacked,       \* the local variable attacked of run()
    calls,          \* the collaborator calls made so far, in order
    mails           \* the notification points reached so far, with their outcome

gpVars   == <<gp_input, list_args, permutations, gp_pc>>
csvVars  == <<file, procs>>
ctorVars == <<args, exp, orig, dirs, ctor_pc>>
runVars  == <<pc, attacked, calls, mails>>
vars     == <<gp_input, list_args, permutations, gp_pc, file, procs,
              args, exp, orig, dirs, ctor_pc, err, pc, attacked, calls, mails>>

-----------------------------------------------------------------------------
(* Python values *)

\* An optional value: None, or Some(v).
None == {}
Some(v) == {v}
Val(o) == CHOOSE v \in o : TRUE

NoError == "NoError"

RECURSIVE SeqToSet(_)
SeqToSet(s) == IF s = << >> THEN {} ELSE {Head(s)} \cup SeqToSet(Tail(s))

-----------------------------------------------------------------------------
(* Python str and list operations, as generate_paths uses them *)

\* s.find(sub): the lowest 0-based index where sub occurs in s, or -1.
Find(s, sub) ==
    LET at == {i \in 1..(Len(s) - Len(sub) + 1) : SubSeq(s, i, i + Len(sub) - 1) = sub}
    IN  IF at = {} THEN 0 - 1 ELSE (CHOOSE i \in at : \A j \in at : i <= j) - 1

\* sub in s
In(sub, s) == Find(s, sub) >= 0

\* A slice bound as Python reads it: negative bounds count from the end, and
\* bounds are clipped to the string.
Clip(s, i) == LET j == IF i < 0 THEN i + Len(s) ELSE i
              IN  IF j < 0 THEN 0 ELSE IF j > Len(s) THEN Len(s) ELSE j

\* s[i:] and s[:i]
SliceFrom(s, i) == SubSeq(s, Clip(s, i) + 1, Len(s))
SliceTo(s, i) == SubSeq(s, 1, Clip(s, i))

\* s.split(sep): the pieces of s between the occurrences of sep, found from
\* the left; empty pieces are kept.
RECURSIVE Split(_, _)
Split(s, sep) ==
    LET at == Find(s, sep)
    IN  IF at < 0 THEN <<s>>
        ELSE <<SliceTo(s, at)>> \o Split(SliceFrom(s, at + Len(sep)), sep)

\* list[i], with Python's negative indices: Some(item), or None where Python
\* raises IndexError.
Item(list, i) ==
    LET j == IF i < 0 THEN i + Len(list) ELSE i
    IN  IF j < 0 \/ j >= Len(list) THEN None ELSE Some(list[j + 1])

Digits == "0123456789"
DigitVal(c) == Find(Digits, c)
IsDigits(s) == Len(s) > 0 /\ \A i \in 1..Len(s) : In(SubSeq(s, i, i), Digits)

RECURSIVE DigitsToInt(_)
DigitsToInt(s) ==
    IF Len(s) = 0 THEN 0
    ELSE 10 * DigitsToInt(SubSeq(s, 1, Len(s) - 1)) + DigitVal(SubSeq(s, Len(s), Len(s)))

\* int(s), here ParseInt: Some(n), or None where Python raises ValueError. A sign is read;
\* the strings of the model hold no blanks and no digit separators.
ParseInt(s) ==
    IF IsDigits(s) THEN Some(DigitsToInt(s))
    ELSE IF Len(s) > 1 /\ Head(s) = "-" /\ IsDigits(Tail(s)) THEN Some(0 - DigitsToInt(Tail(s)))
    ELSE IF Len(s) > 1 /\ Head(s) = "+" /\ IsDigits(Tail(s)) THEN Some(DigitsToInt(Tail(s)))
    ELSE None

\* str(n) of an int n >= 0
RECURSIVE IntToStr(_)
IntToStr(n) ==
    IF n < 10 THEN SubSeq(Digits, n + 1, n + 1)
    ELSE IntToStr(n \div 10) \o SubSeq(Digits, (n % 10) + 1, (n % 10) + 1)

\* f"{x}" of an optional int and of an optional str: None prints as "None".
FmtInt(o) == IF o = None THEN "None" ELSE IntToStr(Val(o))
FmtStr(o) == IF o = None THEN "None" ELSE Val(o)

\* bool(x) of an optional int and of an optional str
TruthyInt(o) == o # None /\ Val(o) # 0
TruthyStr(o) == o # None /\ Val(o) # ""

UpperCase == "ABCDEFGHIJKLMNOPQRSTUVWXYZ"
LowerCase == "abcdefghijklmnopqrstuvwxyz"

\* s.lower()
RECURSIVE Lower(_)
Lower(s) ==
    IF Len(s) = 0 THEN ""
    ELSE LET c == SubSeq(s, 1, 1)
             k == Find(UpperCase, c)
         IN  (IF k < 0 THEN c ELSE SubSeq(LowerCase, k + 1, k + 1)) \o Lower(Tail(s))

-----------------------------------------------------------------------------
(* experiment_utils.generate_permutations *)

\* Bound: the longest candidate list of a parameter.
MaxVals == 3

\* The parameter names of the sweeps that are tried.
ParamNames == <<"a", "b", "c">>

\* list.copy() / dict.copy(): a value of the model is its own copy.
Copy(x) == x

\* dict[key] = val
SetItem(d, key, val) == [k \in DOMAIN d \cup {key} |-> IF k = key THEN val ELSE d[k]]

\* Lines 157-163, the body of `for permutation in temp` for temp[i]. temp is a
\* shallow copy: temp[i] is the same dict object as permutations[i], so the
\* assignment of line 163 changes permutations[i].
ForPermutation(perms, i, parameter, val) ==
    IF parameter \in DOMAIN perms[i]
    THEN Append(perms, SetItem(Copy(perms[i]), parameter, val))
    ELSE [perms EXCEPT ![i] = SetItem(perms[i], parameter, val)]

RECURSIVE ForTemp(_, _, _, _, _)
ForTemp(perms, i, n, parameter, val) ==
    IF i > n THEN perms
    ELSE ForTemp(ForPermutation(perms, i, parameter, val), i + 1, n, parameter, val)

\* A slip in line 158-163: the value is assigned in place whether or not the
\* parameter is already set, so earlier candidates are overwritten.
ForValOverwrite(perms, parameter, val) ==
    LET after == [i \in 1..Len(perms) |-> SetItem(perms[i], parameter, val)]
    IN  IF Len(after) = 0 THEN Append(after, SetItem(<< >>, parameter, val)) ELSE after

\* Lines 155-165, the body of `for val in vals`: temp is the list as it is when
\* the iteration starts (line 156), so the loop runs over Len(perms) entries.
ForVal(perms, parameter, val) ==
    LET after == ForTemp(perms, 1, Len(Copy(perms)), parameter, val)
    IN  IF Len(after) = 0 THEN Append(after, SetItem(<< >>, parameter, val)) ELSE after

RECURSIVE ForVals(_, _, _, _)
ForVals(perms, parameter, vals, j) ==
    IF j > Len(vals) THEN perms
    ELSE ForVals(ForVal(perms, parameter, vals[j]), parameter, vals, j + 1)

\* dict.popitem(): removes and returns the pair inserted last.
PopItem(d) == [item |-> d[Len(d)], rest |-> SubSeq(d, 1, Len(d) - 1)]

\* Candidate lists up to renaming of the values, which the function only
\* assigns: a list of length n whose first occurrences are 1, 2, 3, ...
RECURSIVE MaxOf(_)
MaxOf(s) == IF s = << >> THEN 0
            ELSE LET m == MaxOf(Tail(s)) IN IF Head(s) > m THEN Head(s) ELSE m

CandidateLists(len) ==
    {s \in UNION {[1..n -> 1..len] : n \in 0..len} :
        \A i \in 1..Len(s) : s[i] <= MaxOf(SubSeq(s, 1, i - 1)) + 1}

\* The mappings tried: the first n names, in either insertion order, with up
\* to MaxVals candidates each; one candidate less where all names are used.
Reverse(s) == [i \in 1..Len(s) |-> s[Len(s) + 1 - i]]

GPInputs ==
    UNION {
        LET names == SubSeq(ParamNames, 1, n) IN
        UNION { { [i \in 1..n |-> <<names[i], cl[i]>>],
                  Reverse([i \in 1..n |-> <<names[i], cl[i]>>]) }
                : cl \in [1..n -> CandidateLists(IF n < Len(ParamNames)
                                                 THEN MaxVals ELSE MaxVals - 1)] }
        : n \in 0..Len(ParamNames) }

GPIdle ==
    /\ gp_input = << >>
    /\ list_args = << >>
    /\ permutations = << >>
    /\ gp_pc = "idle"

\* Line 151: the call, with its argument.
GPInit ==
    /\ gp_input \in GPInputs
    /\ list_args = gp_input
    /\ permutations = << >>
    /\ gp_pc = "loop"

\* Lines 153-165: one iteration of `while(len(list_args) > 0)`.
GPWhile ==
    /\ gp_pc = "loop"
    /\ Len(list_args) > 0
    /\ LET popped == PopItem(list_args) IN
        /\ list_args' = popped.rest
        /\ permutations' = ForVals(permutations, popped.item[1], popped.item[2], 1)
    /\ UNCHANGED <<gp_input, gp_pc>>
    /\ UNCHANGED <<csvVars, ctorVars, err, runVars>>

\* Line 166: the loop condition fails, the list is returned.
GPReturn ==
    /\ gp_pc = "loop"
    /\ Len(list_args) = 0
    /\ gp_pc' = "returned"
    /\ UNCHANGED <<gp_input, list_args, permutations>>
    /\ UNCHANGED <<csvVars, ctorVars, err, runVars>>

-----------------------------------------------------------------------------
(* Experiment.update_csv, lines 488-495, on a log file that several         *)
(* processes share                                                         *)

\* Bounds: the processes appending to one log, and the calls each makes.
NProcs == 2
MaxCalls == 3

Procs == 1..NProcs

\* The file is Absent, or File(lines).
Absent == None
File(lines) == Some(lines)
Content(f) == Val(f)
Header == [kind |-> "header"]
Fragment == [kind |-> "fragment"]
Row(p, n) == [kind |-> "row", by |-> p, n |-> n]

\* path.exists(), line 489
Exists(f) == f # Absent

\* open(path, 'w'), line 490: the file is created, or truncated if it is there.
OpenW(f) == File(<< >>)

\* open(path, 'a'), line 493: the file is created if it is not there.
OpenA(f) == IF f = Absent THEN File(<< >>) ELSE f

\* Leaving `with open(path, 'w')`, line 492: the buffered header is written at
\* the handle's offset, 0. On a file that grew since it was opened the header
\* overwrites the bytes at its start: k lines are lost, and the rest of the
\* last of them may stay behind, depending on the lengths of the lines.
WriteHeaderOutcomes(f) ==
    IF f = Absent \/ f = File(<< >>) THEN {File(<<Header>>)}
    ELSE LET old == Content(f) IN
         UNION { { File(<<Header>> \o SubSeq(old, k + 1, Len(old))),
                   File(<<Header, Fragment>> \o SubSeq(old, k + 1, Len(old))) }
                 : k \in 1..Len(old) }

\* Leaving `with open(path, 'a')`, line 495: the row is written at the end.
WriteRow(f, row) == File(Append(Content(f), row))

CsvIdle == file = Absent /\ procs = << >>

CsvInit ==
    /\ file = Absent
    /\ procs = [p \in Procs |-> [pc |-> "idle", n |-> 0]]

\* Process p is the only one inside update_csv, or no one is.
Alone(p) == \A q \in Procs \ {p} : procs[q].pc = "idle"

\* Line 450: process p enters update_csv.
CsvCall(p) ==
    /\ procs[p].pc = "idle"
    /\ procs[p].n < MaxCalls
    /\ procs' = [procs EXCEPT ![p].pc = "L489"]
    /\ UNCHANGED file
    /\ UNCHANGED <<gpVars, ctorVars, err, runVars>>

\* A slip in line 489: the header is written on every call.
CsvExistsAlwaysWrites(p) ==
    /\ procs[p].pc = "L489"
    /\ procs' = [procs EXCEPT ![p].pc = "L490"]
    /\ UNCHANGED file
    /\ UNCHANGED <<gpVars, ctorVars, err, runVars>>

\* Line 489: if not path.exists()
CsvExists(p) ==
    /\ procs[p].pc = "L489"
    /\ procs' = [procs EXCEPT ![p].pc = IF Exists(file) THEN "L493" ELSE "L490"]
    /\ UNCHANGED file
    /\ UNCHANGED <<gpVars, ctorVars, err, runVars>>

\* Line 490: with open(path, 'w') as file
CsvOpenW(p) ==
    /\ procs[p].pc = "L490"
    /\ file' = OpenW(file)
    /\ procs' = [procs EXCEPT ![p].pc = "L492"]
    /\ UNCHANGED <<gpVars, ctorVars, err, runVars>>

\* Lines 491-492: writeheader(), and the with block closes the file.
CsvWriteHeader(p) ==
    /\ procs[p].pc = "L492"
    /\ file' \in WriteHeaderOutcomes(file)
    /\ procs' = [procs EXCEPT ![p].pc = "L493"]
    /\ UNCHANGED <<gpVars, ctorVars, err, runVars>>

\* Line 493: with open(path, 'a') as file
CsvOpenA(p) ==
    /\ procs[p].pc = "L493"
    /\ file' = OpenA(file)
    /\ procs' = [procs EXCEPT ![p].pc = "L495"]
    /\ UNCHANGED <<gpVars, ctorVars, err, runVars>>

\* Lines 494-495: writerow(results), and the with block closes the file.
CsvWriteRow(p) ==
    /\ procs[p].pc = "L495"
    /\ file' = WriteRow(file, Row(p, procs[p].n + 1))
    /\ procs' = [procs EXCEPT ![p] = [pc |-> "idle", n |-> @.n + 1]]
    /\ UNCHANGED <<gpVars, ctorVars, err, runVars>>

CsvStep(p) ==
    \/ CsvCall(p)
    \/ CsvExists(p)
    \/ CsvOpenW(p)
    \/ CsvWriteHeader(p)
    \/ CsvOpenA(p)
    \/ CsvWriteRow(p)

-----------------------------------------------------------------------------
(* experiments.check_folder_structure, lines 500-620 *)

\* Paths are written relative to the repository root, Path.cwd() of line 573,
\* as the model_path argument is (lines 64-66).
Root == "."
Join(a, b) == IF a = Root THEN b ELSE a \o "/" \o b

\* path.mkdir(parents=True, exist_ok=True): the directory and its ancestors,
\* the prefixes of the path that end before a separator.
Ancestors(path) ==
    {Root, path} \cup
    {SubSeq(path, 1, i - 1) : i \in {j \in 2..Len(path) : SubSeq(path, j, j) = "/"}}

\* Lines 587-599: the model folder name, or the exception that an assert
\* raises. The arguments are optional values.
Variation(base, quantize, prune, finetune_epochs, compression) ==
    IF TruthyInt(quantize)                                        \* 588-589
    THEN [err |-> NoError, name |-> base \o "_" \o FmtInt(quantize) \o "_quantization"]
    ELSE IF TruthyStr(prune)                                       \* 590-596
    THEN IF ~(compression # None /\ Val(compression) > 1)
         THEN [err |-> "AssertionError", name |-> base]
         ELSE IF ~(finetune_epochs # None /\ Val(finetune_epochs) >= 0)
         THEN [err |-> "AssertionError", name |-> base]
         ELSE [err |-> NoError,
               name |-> base \o "_" \o FmtStr(prune) \o "_" \o FmtInt(compression)
                             \o "_compression"]
    ELSE [err |-> NoError, name |-> base]

\* Lines 598-599
FinetuneSuffix(variation, finetune_epochs) ==
    IF variation.err # NoError THEN variation
    ELSE IF TruthyInt(finetune_epochs)
    THEN [variation EXCEPT
            !.name = @ \o "_" \o FmtInt(finetune_epochs) \o "_finetune_iterations"]
    ELSE variation

FolderName(model_type, quantize, prune, finetune_epochs, compression) ==
    FinetuneSuffix(
        Variation(Lower(Val(model_type)), quantize, prune, finetune_epochs, compression),
        finetune_epochs)

\* Lines 573-605 and 615: the paths of the experiment, before the attack
\* folders are added.
BasePaths(experiment_number, dataset, model_type, experiment, name) ==
    [root |-> Root,
     datasets |-> Join(Root, "datasets"),
     experiments |-> Join(Root, "experiments"),
     experiment |-> experiment,
     dataset |-> Join(Join(Root, "datasets"), dataset),
     model_type |-> Join(experiment, model_type),
     model_dataset |-> Join(Join(experiment, model_type), dataset),
     model |-> Join(Join(Join(experiment, model_type), dataset), name)]

\* Lines 607-609
PathDict(base, attack) ==
    IF TruthyStr(attack)
    THEN [k \in DOMAIN base \cup {"attacks", "attack"} |->
            IF k = "attacks" THEN Join(base.model, "attacks")
            ELSE IF k = "attack" THEN Join(Join(base.model, "attacks"), Val(attack))
            ELSE base[k]]
    ELSE base

\* A slip in lines 611-613: the model folder is made without looking whether
\* it exists, and mkdir raises if it does.
MakeFoldersAnew(path_dict, name, logs, disk) ==
    IF path_dict.model \in disk
    THEN [err |-> "FileExistsError", name |-> "", paths |-> << >>, dirs |-> disk]
    ELSE [err |-> NoError,
          name |-> name,
          paths |-> [k \in DOMAIN path_dict \cup {"logs.csv"} |->
                       IF k = "logs.csv" THEN logs ELSE path_dict[k]],
          dirs |-> disk \cup UNION {Ancestors(path_dict[k]) : k \in DOMAIN path_dict}]

\* Lines 611-620: the folders are made, the log file is named, the paths and
\* the folder name are returned.
MakeFolders(path_dict, name, logs, disk) ==
    [err |-> NoError,
     name |-> name,
     paths |-> [k \in DOMAIN path_dict \cup {"logs.csv"} |->
                  IF k = "logs.csv" THEN logs ELSE path_dict[k]],
     dirs |-> disk \cup UNION {Ancestors(path_dict[k]) : k \in DOMAIN path_dict}]

\* A slip: the experiment folder is made where its path is computed (line
\* 578), before the asserts of lines 592-597.
FoldersMadeFirst(experiment_number, dataset, model_type, attack, folder, experiment, disk) ==
    IF folder.err # NoError
    THEN [err |-> folder.err, name |-> "", paths |-> << >>,
          dirs |-> disk \cup Ancestors(experiment)]
    ELSE MakeFolders(
            PathDict(BasePaths(experiment_number, dataset, model_type, experiment,
                               folder.name),
                     attack),
            folder.name,
            Join(experiment, "experiment_" \o FmtInt(experiment_number) \o "_logs.csv"),
            disk)

\* Lines 601-620, once the folder name is computed
FoldersOf(experiment_number, dataset, model_type, attack, folder, experiment, disk) ==
    IF folder.err # NoError
    THEN [err |-> folder.err, name |-> "", paths |-> << >>, dirs |-> disk]
    ELSE MakeFolders(
            PathDict(BasePaths(experiment_number, dataset, model_type, experiment,
                               folder.name),
                     attack),
            folder.name,
            Join(experiment, "experiment_" \o FmtInt(experiment_number) \o "_logs.csv"),
            disk)

\* check_folder_structure: [err, name, paths, dirs], dirs being the
\* directories on disk when it returns or raises.
check_folder_structure(experiment_number, dataset, model_type, quantize, prune, attack, finetune_epochs, compression, disk) ==
    IF dataset = None \/ model_type = None                            \* 581-583
    THEN [err |-> "TypeError", name |-> "", paths |-> << >>, dirs |-> disk]
    ELSE FoldersOf(experiment_number, Val(dataset), Val(model_type), attack,
                   FolderName(model_type, quantize, prune, finetune_epochs, compression),
                   Join(Join(Root, "experiments"),
                        "experiment_" \o FmtInt(experiment_number)),
                   disk)

-----------------------------------------------------------------------------
(* Experiment.generate_paths, lines 158-276. A block takes and returns      *)
(* st = [self, err, already_pruned]; a block after a raise does nothing.    *)

Raise(st, e) == [st EXCEPT !.err = e]
SetAttr(st, field, value) == [st EXCEPT !.self = [@ EXCEPT ![field] = value]]

\* line 175
Sep(m_path) == IF In("\\", m_path) THEN "\\" ELSE "/"

\* int(m_path[:loc].split("_")[-2]), lines 208, 226 and 250: Some(n), or the
\* exception raised.
IntOf(token) ==
    IF token = None THEN [err |-> "IndexError", value |-> None]
    ELSE IF ParseInt(Val(token)) = None THEN [err |-> "ValueError", value |-> None]
    ELSE [err |-> NoError, value |-> ParseInt(Val(token))]

IntBefore(m_path, loc) == IntOf(Item(Split(SliceTo(m_path, loc), "_"), 0 - 2))

\* Lines 177-182. The else branch assigns a local variable experiment_number,
\* not self.experiment_number.
ExperimentNumberBlock(st, m_path) ==
    IF st.err # NoError THEN st
    ELSE IF TruthyInt(st.self.experiment_number)
    THEN IF ~In("experiment_" \o FmtInt(st.self.experiment_number), m_path)
         THEN Raise(st, "ValueError")
         ELSE st
    ELSE LET piece == Item(Split(SliceFrom(m_path, Find(m_path, "experiment_")), "_"), 1)
         IN  IF piece = None THEN Raise(st, "IndexError")
             ELSE IF ParseInt(Val(Item(Split(Val(piece), Sep(m_path)), 0))) = None
             THEN Raise(st, "ValueError")
             ELSE st

\* Lines 184-189
ModelTypeBlock(st, m_path) ==
    IF st.err # NoError THEN st
    ELSE IF TruthyStr(st.self.model_type)
    THEN IF ~In(Val(st.self.model_type), m_path) THEN Raise(st, "ValueError") ELSE st
    ELSE LET from == Find(m_path, "experiment_" \o FmtInt(st.self.experiment_number))
             piece == Item(Split(SliceFrom(m_path, from), Sep(m_path)), 1)
         IN  IF piece = None THEN Raise(st, "IndexError")
             ELSE SetAttr(st, "model_type", piece)

\* Lines 191-196
DatasetBlock(st, m_path) ==
    IF st.err # NoError THEN st
    ELSE IF TruthyStr(st.self.dataset)
    THEN IF ~In(Val(st.self.dataset), m_path) THEN Raise(st, "ValueError") ELSE st
    ELSE LET from == Find(m_path, FmtStr(st.self.model_type))
             piece == Item(Split(SliceFrom(m_path, from), Sep(m_path)), 1)
         IN  IF piece = None THEN Raise(st, "IndexError")
             ELSE SetAttr(st, "dataset", piece)

\* A slip in lines 199-204: a supplied quantization is never compared with
\* the path.
QuantizationUnchecked(st, m_path) ==
    IF st.err # NoError THEN st
    ELSE IF TruthyInt(st.self.quantization) THEN st
    ELSE LET loc == Find(m_path, "quantization")
             found == IntBefore(m_path, loc)
         IN  IF loc >= 0
             THEN IF found.err # NoError THEN Raise(st, found.err)
                  ELSE SetAttr(st, "quantization", found.value)
             ELSE SetAttr(st, "quantization", None)

\* Lines 199-210, and again lines 254-265
QuantizationBlock(st, m_path) ==
    IF st.err # NoError THEN st
    ELSE IF TruthyInt(st.self.quantization)
    THEN IF In("quantization", m_path)
            /\ ~In(FmtInt(st.self.quantization) \o "_quantization", m_path)
         THEN Raise(st, "ValueError")
         ELSE st
    ELSE LET loc == Find(m_path, "quantization")
             found == IntBefore(m_path, loc)
         IN  IF loc >= 0
             THEN IF found.err # NoError THEN Raise(st, found.err)
                  ELSE SetAttr(st, "quantization", found.value)
             ELSE SetAttr(st, "quantization", None)

\* Lines 213-228
CompressionBlock(st, m_path) ==
    IF st.err # NoError THEN st
    ELSE IF TruthyInt(st.self.prune_compression)
    THEN IF In("compression", m_path)
         THEN IF ~In(FmtInt(st.self.prune_compression) \o "_compression", m_path)
              THEN Raise(st, "ValueError")
              ELSE [st EXCEPT !.already_pruned = TRUE]
         ELSE st
    ELSE LET loc == Find(m_path, "compression")
             found == IntBefore(m_path, loc)
         IN  IF loc >= 0
             THEN IF found.err # NoError THEN Raise(st, found.err)
                  ELSE SetAttr(st, "prune_compression", found.value)
             ELSE SetAttr(st, "prune_compression", None)

\* Lines 230-240
PruneMethodBlock(st, m_path) ==
    IF st.err # NoError THEN st
    ELSE IF TruthyStr(st.self.prune_method)
    THEN IF ~In(Val(st.self.prune_method), m_path) /\ st.already_pruned
         THEN Raise(st, "ValueError")
         ELSE st
    ELSE IF TruthyInt(st.self.prune_compression)
    THEN LET loc == Find(m_path, FmtInt(st.self.prune_compression) \o "_compression")
             token == Item(Split(SliceTo(m_path, loc), "_"), 0 - 2)
         IN  IF token = None THEN Raise(st, "IndexError")
             ELSE SetAttr(st, "prune_method", token)
    ELSE SetAttr(st, "prune_method", None)

\* Lines 242-252
FinetuneBlock(st, m_path) ==
    IF st.err # NoError THEN st
    ELSE IF TruthyInt(st.self.finetune_epochs)
    THEN IF ~In(FmtInt(st.self.finetune_epochs) \o "_finetune_iterations", m_path)
            /\ st.already_pruned
         THEN Raise(st, "ValueError")
         ELSE st
    ELSE IF TruthyStr(st.self.prune_method)
    THEN LET found == IntBefore(m_path, Find(m_path, "finetune"))
         IN  IF found.err # NoError THEN Raise(st, found.err)
             ELSE SetAttr(st, "finetune_epochs", found.value)
    ELSE SetAttr(st, "finetune_epochs", None)

\* Lines 198-265, `if self.resume:`
ResumeBlock(st, m_path) ==
    IF st.err # NoError \/ ~st.self.resume THEN st
    ELSE QuantizationBlock(
            FinetuneBlock(
                PruneMethodBlock(
                    CompressionBlock(
                        QuantizationBlock(st, m_path), m_path), m_path), m_path), m_path)

\* Lines 173-265, `if self.model_path:`
Decoded(self) ==
    IF TruthyStr(self.model_path)
    THEN ResumeBlock(
            DatasetBlock(
               ModelTypeBlock(
                  ExperimentNumberBlock(
                     [self |-> self, err |-> NoError, already_pruned |-> FALSE],
                     Val(self.model_path)),
                  Val(self.model_path)),
               Val(self.model_path)),
            Val(self.model_path))
    ELSE [self |-> self, err |-> NoError, already_pruned |-> FALSE]

\* Lines 267-276, the call of check_folder_structure on the fields of self
CheckFolders(self, disk) ==
    check_folder_structure(
        self.experiment_number, self.dataset, self.model_type, self.quantization,
        self.prune_method, self.attack_method, self.finetune_epochs,
        self.prune_compression, disk)

\* What generate_paths leaves: an exception, or self with the paths and the
\* name that line 125 assigns.
Generated(self, built) ==
    IF built.err # NoError
    THEN [self |-> self, err |-> built.err, dirs |-> built.dirs]
    ELSE [self |-> [self EXCEPT !.paths = built.paths, !.name = Some(built.name)],
          err |-> NoError, dirs |-> built.dirs]

\* generate_paths on the decoded fields: [self, err, dirs]
GeneratePathsFrom(st, disk) ==
    IF st.err # NoError THEN [self |-> st.self, err |-> st.err, dirs |-> disk]
    ELSE Generated(st.self, CheckFolders(st.self, disk))

generate_paths(self, disk) == GeneratePathsFrom(Decoded(self), disk)

-----------------------------------------------------------------------------
(* Experiment.__init__, lines 32-156 *)

\* format_path is imported from experiment_utils (line 21), which does not
\* define it: None stays None, a path is kept as it is written.
format_path(path) == path

\* The defaults of lines 34-55.
Defaults ==
    [experiment_number |-> None, dataset |-> None, model_type |-> None,
     model_path |-> None, resume |-> FALSE, quantization |-> None,
     prune_method |-> None, prune_compression |-> Some(1), finetune_epochs |-> None,
     attack_method |-> None, attack_kwargs |-> None, skip_attack |-> FALSE,
     only_transfer |-> FALSE, transfer_attack_model |-> None, email_verbose |-> FALSE]

\* A slip in lines 117-120: the three asserts are missing.
OnlyTransferUnchecked(a) == TRUE

\* Lines 117-120: the asserts pass.
OnlyTransferAsserts(a) ==
    a.only_transfer =>
        /\ a.resume
        /\ a.model_path # None
        /\ a.transfer_attack_model # None

\* Line 128, after generate_paths returned gen
TrainFromScratch(gen) ==
    IF gen.err # NoError THEN gen
    ELSE [gen EXCEPT !.self.train_from_scratch = ~TruthyStr(gen.self.model_path)]

\* Experiment(**a): [self, err, dirs]. Attributes that __init__ never assigns
\* (transfer_results, transfer_attack_exp, model_eval_results) are listed in
\* self.unset until a method assigns them.
Construct(a, disk) ==
    LET self0 ==
            [experiment_number |-> a.experiment_number,                 \* 103
             dataset |-> a.dataset,
             model_type |-> a.model_type,
             model_path |-> format_path(a.model_path),                  \* 106
             resume |-> a.resume,
             quantization |-> a.quantization,
             prune_method |-> a.prune_method,
             prune_compression |-> a.prune_compression,
             finetune_epochs |-> a.finetune_epochs,
             attack_method |-> a.attack_method,
             attack_kwargs |-> a.attack_kwargs,
             skip_attack |-> a.skip_attack,
             only_transfer |-> a.only_transfer,                         \* 116
             transfer_attack_model |-> format_path(a.transfer_attack_model),
             email_verbose |-> a.email_verbose,
             train_from_scratch |-> FALSE,
             paths |-> << >>,
             name |-> None,
             attack_exp |-> None,                                       \* 136
             attack_results |-> None,
             unset |-> {"transfer_results", "transfer_attack_exp", "model_eval_results"}]
    IN  IF ~OnlyTransferAsserts(a) THEN [self |-> self0, err |-> "AssertionError", dirs |-> disk]
        ELSE TrainFromScratch(generate_paths(self0, disk))              \* 125

\* The configurations a fresh experiment is constructed with.
ExperimentNumbers == {0, 1}
ModelTypes == {"VGG"}
Datasets == {"CIFAR10"}
Quantizations == {4, 8, 14}
PruneMethods == {"L1"}
Compressions == {1, 4}
FinetuneEpochs == {5}

Opt(S) == {None} \cup {Some(v) : v \in S}

FreshArgs ==
    {[Defaults EXCEPT !.experiment_number = Some(n), !.dataset = Some(d),
                      !.model_type = Some(m), !.quantization = q, !.prune_method = pm,
                      !.prune_compression = Some(c), !.finetune_epochs = fe] :
        n \in ExperimentNumbers, d \in Datasets, m \in ModelTypes,
        q \in Opt(Quantizations), pm \in Opt(PruneMethods), c \in Compressions,
        fe \in Opt(FinetuneEpochs)}

\* What the training collaborator leaves under the model folder: the path of
\* a checkpoint, as best_model reports it (line 355).
Artifacts == {"/checkpoint-5.pt", "/best_model.pt"}

\* The arguments a second Experiment(...) is constructed with, on a model the
\* first one left behind. The caller supplies the experiment number or not,
\* the dataset and model type of the first experiment, or another dataset or
\* model type, or neither, and beside them either a quantization or any of
\* the pruning fields.
OtherDataset == "MNIST"
OtherModelType == "ResNet"
OtherPruneMethod == "Rand"

Variations ==
    {[quantization |-> q, prune_method |-> None, prune_compression |-> Some(1),
      finetune_epochs |-> None] : q \in Opt(Quantizations)}
    \cup
    {[quantization |-> None, prune_method |-> pm, prune_compression |-> Some(c),
      finetune_epochs |-> fe] :
        pm \in Opt(PruneMethods \cup {OtherPruneMethod}), c \in Compressions,
        fe \in Opt({5, 7})}

ResumeArgs(first) ==
    {[Defaults EXCEPT !.model_path = Some(first.paths.model \o artifact),
                      !.resume = r,
                      !.experiment_number = n, !.dataset = id[1], !.model_type = id[2],
                      !.quantization = v.quantization, !.prune_method = v.prune_method,
                      !.prune_compression = v.prune_compression,
                      !.finetune_epochs = v.finetune_epochs] :
        artifact \in Artifacts, r \in BOOLEAN,
        n \in Opt(ExperimentNumbers),
        id \in {<<None, None>>, <<first.dataset, first.model_type>>,
                <<Some(OtherDataset), first.model_type>>,
                <<first.dataset, Some(OtherModelType)>>},
        v \in Variations}

NoObject == << >>

CtorIdle ==
    /\ args = NoObject
    /\ exp = NoObject
    /\ orig = NoObject
    /\ dirs = {}
    /\ ctor_pc = "idle"

\* A caller is about to construct an experiment in an empty repository root.
CtorInit ==
    /\ args \in FreshArgs
    /\ exp = NoObject
    /\ orig = NoObject
    /\ dirs = {Root}
    /\ ctor_pc = "new"
    /\ err = NoError

\* Experiment(**args) without a model path.
CtorFresh ==
    /\ ctor_pc = "new"
    /\ \E made \in {Construct(args, dirs)} :
        /\ exp' = made.self
        /\ orig' = made.self
        /\ err' = made.err
        /\ dirs' = made.dirs
        /\ ctor_pc' = IF made.err = NoError THEN "built" ELSE "failed"
    /\ UNCHANGED args
    /\ UNCHANGED <<gpVars, csvVars, runVars>>

\* Experiment(model_path=..., **args) on a checkpoint under the folder of the
\* first experiment.
CtorResume ==
    /\ ctor_pc = "built"
    /\ \E a \in ResumeArgs(orig) :
        \E made \in {Construct(a, dirs)} :
        /\ args' = a
        /\ exp' = made.self
        /\ err' = made.err
        /\ dirs' = made.dirs
        /\ ctor_pc' = "resumed"
    /\ UNCHANGED orig
    /\ UNCHANGED <<gpVars, csvVars, runVars>>

\* check_folder_structure is called again with the arguments that the
\* constructor passed to it (lines 267-276).
CheckAgain ==
    /\ ctor_pc = "built"
    /\ \E built \in {CheckFolders(exp, dirs)} :
        /\ exp' = IF built.err = NoError THEN Generated(exp, built).self ELSE exp
        /\ err' = built.err
        /\ dirs' = built.dirs
        /\ ctor_pc' = "checked"
    /\ UNCHANGED <<args, orig>>
    /\ UNCHANGED <<gpVars, csvVars, runVars>>

-----------------------------------------------------------------------------
(* Experiment.run and the stages it calls, lines 304-497. A stage takes and *)
(* returns st = [exp, calls, mails, file, err]: the experiment object, the  *)
(* calls made so far, the notifications handed to the email callback, the   *)
(* log file, and the exception that left the stage, if any.                 *)

\* No run is in progress.
RunIdle == pc = "idle" /\ attacked = FALSE /\ calls = << >> /\ mails = << >>

Now == [exp |-> exp, calls |-> calls, mails |-> mails, file |-> file, err |-> err]

\* A method is entered or a collaborator is invoked: what it is, its flag
\* (transfer for attack, attack for the evaluator), and the model path and
\* the attack_kwargs of the experiment at that moment.
Call(op, flag, self) ==
    [op |-> op, flag |-> flag, model_path |-> self.model_path, kwargs |-> self.attack_kwargs]

Called(st, op, flag) == [st EXCEPT !.calls = Append(@, Call(op, flag, st.exp))]

\* What a collaborator (TrainingExperiment, PruningExperiment,
\* AttackExperiment, Model_Evaluator) does when it is constructed and run: it
\* returns, or it raises.
CollaboratorOutcomes == {NoError, "CollaboratorError"}

\* What happens inside the email callback: the message is sent (or sending is
\* switched off, lines 40 and 86-87), smtplib raises an SMTPException, or the
\* connection fails with an OSError.
EmailOutcomes == {"sent", "SMTPException", "OSError"}

\* experiment_utils.email, lines 86-102: the exception that leaves it. Only
\* SMTPException is caught (line 101).
email(outcome) ==
    IF outcome = "sent" THEN NoError
    ELSE IF outcome = "SMTPException" THEN NoError
    ELSE outcome

\* self.email(subject, content) at a notification point
SelfEmail(st, point, outcome) ==
    [st EXCEPT !.mails = Append(@, [at |-> point, outcome |-> outcome]),
               !.err = email(outcome)]

\* best_model(path, metric), lines 355 and 395: the checkpoint that the
\* collaborator left under the model folder.
best_model(self, stage) == Some(self.paths.model \o "/" \o stage \o "/checkpoint-5.pt")

\* Lines 342-358, after the assert of train()
Trained(st, outcome, mail) ==
    IF outcome # NoError THEN Raise(st, outcome)                         \* 342-352
    ELSE IF st.exp.email_verbose                                         \* 357
    THEN SelfEmail([st EXCEPT !.exp.model_path = best_model(st.exp, "train")],
                   "train", mail)
    ELSE [st EXCEPT !.exp.model_path = best_model(st.exp, "train")]      \* 355

\* Experiment.train, lines 335-358
train(st, outcome, mail) ==
    IF st.exp.model_path # None
    THEN Raise(Called(st, "train", FALSE), "AssertionError")             \* 338
    ELSE Trained(Called(Called(st, "train", FALSE), "TrainingExperiment", FALSE),
                 outcome, mail)

\* Lines 376-398, after the assert of prune()
Pruned(st, outcome, mail) ==
    IF outcome # NoError THEN Raise(st, outcome)                         \* 378-392
    ELSE IF st.exp.email_verbose                                         \* 397
    THEN SelfEmail([st EXCEPT !.exp.model_path = best_model(st.exp, "prune")],
                   "prune", mail)
    ELSE [st EXCEPT !.exp.model_path = best_model(st.exp, "prune")]      \* 395

\* A slip in line 370: prune() without its assert.
PruneUnchecked(st, outcome, mail) ==
    Pruned(Called(Called(st, "prune", FALSE), "PruningExperiment", FALSE), outcome, mail)

\* Experiment.prune, lines 360-398
prune(st, outcome, mail) ==
    IF st.exp.model_path = None
    THEN Raise(Called(st, "prune", FALSE), "AssertionError")             \* 370
    ELSE Pruned(Called(Called(st, "prune", FALSE), "PruningExperiment", FALSE),
                outcome, mail)

\* Experiment.quantize, lines 400-401: a docstring and nothing else
quantize(st) == Called(st, "quantize", FALSE)

\* dict.pop(key) on a dictionary that holds the key: what is left
Pop(d, key) == [k \in DOMAIN d \ {key} |-> d[k]]

\* A slip in line 442: attack_kwargs does not get its 'train' entry back.
NotRestored(st, kw_train, mail) ==
    IF ~st.exp.email_verbose THEN st
    ELSE IF st.exp.attack_exp = None THEN Raise(st, "AttributeError")
    ELSE SelfEmail(st, "attack", mail)

\* Lines 441-448: attack_kwargs gets its 'train' entry back, and the verbose
\* notification reads self.attack_exp, whichever attack this was.
Concluded(st, kw_train, mail) ==
    IF ~st.exp.email_verbose                                             \* 444
    THEN [st EXCEPT !.exp.attack_kwargs = Some(SetItem(Val(@), "train", kw_train))]
    ELSE IF st.exp.attack_exp = None
    THEN Raise([st EXCEPT !.exp.attack_kwargs = Some(SetItem(Val(@), "train", kw_train))],
               "AttributeError")                                         \* 447
    ELSE SelfEmail([st EXCEPT !.exp.attack_kwargs = Some(SetItem(Val(@), "train", kw_train))],
                   "attack", mail)

\* Lines 432-439: the attack experiment is stored, run, and its results kept.
Attacked(st, kw_train, transfer, outcome, mail) ==
    IF transfer
    THEN IF outcome # NoError
         THEN Raise([st EXCEPT !.exp.unset = @ \ {"transfer_attack_exp"}], outcome)
         ELSE Concluded([st EXCEPT !.exp.unset =
                                      @ \ {"transfer_attack_exp", "transfer_results"}],
                        kw_train, mail)
    ELSE IF outcome # NoError
         THEN Raise([st EXCEPT !.exp.attack_exp = Some("AttackExperiment")], outcome)
         ELSE Concluded([st EXCEPT !.exp.attack_exp = Some("AttackExperiment"),
                                   !.exp.attack_results = Some("results")],
                        kw_train, mail)

\* Lines 412-430, with attack_kwargs already without its 'train' entry
Popped(st, kw_train, transfer, outcome, mail) ==
    IF st.exp.model_path = None THEN Raise(st, "AssertionError")         \* 412
    ELSE Attacked(Called(st, "AttackExperiment", transfer), kw_train, transfer, outcome, mail)

\* Experiment.attack, lines 403-448
attack(st, transfer, outcome, mail) ==
    IF st.exp.attack_kwargs = None                                       \* 408
    THEN Raise(Called(st, "attack", transfer), "AttributeError")
    ELSE IF "train" \notin DOMAIN Val(st.exp.attack_kwargs)
    THEN Raise(Called(st, "attack", transfer), "KeyError")
    ELSE Popped([Called(st, "attack", transfer) EXCEPT
                    !.exp.attack_kwargs = Some(Pop(Val(@), "train"))],
                Val(st.exp.attack_kwargs)["train"], transfer, outcome, mail)

\* Lines 328-329: the evaluator is constructed and run with attack = flag,
\* and its results are stored in self.model_eval_results.
Evaluate(st, flag, outcome) ==
    IF outcome # NoError THEN Raise(Called(st, "Model_Evaluator", flag), outcome)
    ELSE [Called(st, "Model_Evaluator", flag) EXCEPT
             !.exp.unset = @ \ {"model_eval_results"}]

\* Lines 489-492 in one process: the header that the creating call writes
WriteHeader(f) == CHOOSE g \in WriteHeaderOutcomes(OpenW(f)) : TRUE

\* Lines 488-495 in one process
Appended(f, row) == WriteRow(OpenA(IF Exists(f) THEN f ELSE WriteHeader(f)), row)

\* Experiment.update_csv, lines 450-497. Reading an attribute that no
\* statement assigned raises AttributeError.
update_csv(st) ==
    IF "model_eval_results" \in st.exp.unset
    THEN Raise(Called(st, "update_csv", FALSE), "AttributeError")        \* 454
    ELSE IF "transfer_results" \in st.exp.unset
    THEN Raise(Called(st, "update_csv", FALSE), "AttributeError")        \* 484
    ELSE [Called(st, "update_csv", FALSE) EXCEPT !.file = Appended(@, Row(1, 1))]

\* The configurations that are run: a model trained from scratch, or a
\* pretrained one, resumed or not; with or without pruning, quantization, an
\* attack, its arguments, and a model to transfer the attack to.
Pretrained == "experiments/experiment_1/VGG/CIFAR10/vgg/checkpoint-5.pt"
TransferModel == "transfer/checkpoint-5.pt"
AttackKwargs == {None, Some([train |-> TRUE, nb_iter |-> 7]), Some([nb_iter |-> 7])}

RunArgs ==
    {[Defaults EXCEPT
        !.experiment_number = Some(1), !.dataset = Some("CIFAR10"),
        !.model_type = Some("VGG"),
        !.model_path = src[1], !.resume = src[2],
        !.prune_method = IF pruning THEN Some("L1") ELSE None,
        !.prune_compression = IF pruning THEN Some(4) ELSE IF src[2] THEN None ELSE Some(1),
        !.finetune_epochs = IF pruning THEN Some(5) ELSE None,
        !.quantization = q, !.attack_method = am, !.attack_kwargs = kw,
        !.skip_attack = skip, !.only_transfer = only, !.transfer_attack_model = tm,
        !.email_verbose = verbose] :
     src \in {<<None, FALSE>>, <<Some(Pretrained), FALSE>>, <<Some(Pretrained), TRUE>>},
     pruning \in BOOLEAN, q \in {None, Some(8)}, am \in {None, Some("pgd")},
     kw \in AttackKwargs, skip \in BOOLEAN, only \in BOOLEAN,
     tm \in {None, Some(TransferModel)}, verbose \in BOOLEAN}

\* Experiment(**a) was called in an empty repository root: it returned, and
\* run() is called, or it raised, and there is no experiment to run.
RunInit ==
    \E a \in RunArgs : \E made \in {Construct(a, {Root})} :
        /\ args = a
        /\ exp = made.self
        /\ orig = made.self
        /\ dirs = made.dirs
        /\ ctor_pc = IF made.err = NoError THEN "built" ELSE "failed"
        /\ err = made.err
        /\ pc = IF made.err = NoError THEN "L307" ELSE "idle"
        /\ attacked = FALSE
        /\ calls = << >>
        /\ mails = << >>

\* A slip in run(): the exception of a stage is caught and run() goes on.
StepOn(st, next) ==
    /\ exp' = st.exp
    /\ calls' = st.calls
    /\ mails' = st.mails
    /\ file' = st.file
    /\ err' = st.err
    /\ pc' = next
    /\ UNCHANGED <<gpVars, procs, args, orig, dirs, ctor_pc>>

\* A statement of run() leaves st behind: run() goes on to the statement at
\* next, or the exception leaves run().
Step(st, next) ==
    /\ exp' = st.exp
    /\ calls' = st.calls
    /\ mails' = st.mails
    /\ file' = st.file
    /\ err' = st.err
    /\ pc' = IF st.err # NoError THEN "raised" ELSE next
    /\ UNCHANGED <<gpVars, procs, args, orig, dirs, ctor_pc>>

\* Lines 307-309
RunStart ==
    /\ pc = "L307"
    /\ \E mail \in EmailOutcomes : \E st \in {SelfEmail(Now, "start", mail)} :
        /\ Step(st, "L311")
        /\ attacked' = IF st.err = NoError THEN exp.skip_attack ELSE attacked

\* Lines 311-312
RunTrain ==
    /\ pc = "L311"
    /\ IF exp.train_from_scratch /\ ~exp.only_transfer
       THEN \E outcome \in CollaboratorOutcomes, mail \in EmailOutcomes :
                \E st \in {train(Now, outcome, mail)} : Step(st, "L314")
       ELSE Step(Now, "L317")
    /\ UNCHANGED attacked

\* A slip in lines 316 and 324: `attacked = True` is missing.
AttackedForgotten(st, done) == done

\* Lines 316 and 324: the local attacked after attack() was called, if run()
\* goes on
AttackedAfter(st, done) == IF st.err = NoError THEN TRUE ELSE done

\* A slip in line 314: the early attack does not look at prune_method and
\* quantization.
EarlyAttackAlways(self, done) == TruthyStr(self.attack_method) /\ ~done

\* Line 314
EarlyAttack(self, done) ==
    /\ TruthyStr(self.attack_method) /\ ~done
    /\ ~TruthyStr(self.prune_method) /\ ~TruthyInt(self.quantization)

\* Lines 314-316
RunEarlyAttack ==
    /\ pc = "L314"
    /\ IF EarlyAttack(exp, attacked)
       THEN \E outcome \in CollaboratorOutcomes, mail \in EmailOutcomes :
                \E st \in {attack(Now, FALSE, outcome, mail)} :
                    /\ Step(st, "L317")
                    /\ attacked' = AttackedAfter(st, attacked)
       ELSE Step(Now, "L317") /\ UNCHANGED attacked

\* Lines 317-318
RunPrune ==
    /\ pc = "L317"
    /\ IF TruthyStr(exp.prune_method) /\ ~exp.only_transfer
       THEN \E outcome \in CollaboratorOutcomes, mail \in EmailOutcomes :
                \E st \in {prune(Now, outcome, mail)} : Step(st, "L319")
       ELSE Step(Now, "L319")
    /\ UNCHANGED attacked

\* Lines 319-320
RunQuantize ==
    /\ pc = "L319"
    /\ IF TruthyInt(exp.quantization) /\ ~exp.only_transfer
       THEN Step(quantize(Now), "L322")
       ELSE Step(Now, "L322")
    /\ UNCHANGED attacked

\* A slip in line 322: the late attack does not look at `attacked`.
LateAttackAgain(self, done) == TruthyStr(self.attack_method) /\ ~self.only_transfer

\* Line 322
LateAttack(self, done) == TruthyStr(self.attack_method) /\ ~done /\ ~self.only_transfer

\* Lines 322-324
RunLateAttack ==
    /\ pc = "L322"
    /\ IF LateAttack(exp, attacked)
       THEN \E outcome \in CollaboratorOutcomes, mail \in EmailOutcomes :
                \E st \in {attack(Now, FALSE, outcome, mail)} :
                    /\ Step(st, "L325")
                    /\ attacked' = AttackedAfter(st, attacked)
       ELSE Step(Now, "L325") /\ UNCHANGED attacked

\* Lines 325-326
RunTransfer ==
    /\ pc = "L325"
    /\ IF exp.transfer_attack_model # None
       THEN \E outcome \in CollaboratorOutcomes, mail \in EmailOutcomes :
                \E st \in {attack(Now, TRUE, outcome, mail)} : Step(st, "L328")
       ELSE Step(Now, "L328")
    /\ UNCHANGED attacked

\* Lines 328-329
RunEvaluate ==
    /\ pc = "L328"
    /\ \E outcome \in CollaboratorOutcomes :
        \E st \in {Evaluate(Now, ~attacked, outcome)} : Step(st, "L331")
    /\ UNCHANGED attacked

\* Line 331
RunUpdateCsv ==
    /\ pc = "L331"
    /\ \E st \in {update_csv(Now)} : Step(st, "L333")
    /\ UNCHANGED attacked

\* Line 333
RunEnd ==
    /\ pc = "L333"
    /\ \E mail \in EmailOutcomes :
        \E st \in {SelfEmail(Now, "end", mail)} : Step(st, "done")
    /\ UNCHANGED attacked

\* The caller calls prune() on the experiment instead of run().
CallPrune ==
    /\ pc = "L307"
    /\ \E outcome \in CollaboratorOutcomes, mail \in EmailOutcomes :
        \E st \in {prune(Now, outcome, mail)} :
            /\ exp' = st.exp
            /\ calls' = st.calls
            /\ mails' = st.mails
            /\ file' = st.file
            /\ err' = st.err
            /\ pc' = IF st.err # NoError THEN "prune_raised" ELSE "prune_returned"
    /\ UNCHANGED <<gpVars, procs, args, orig, dirs, ctor_pc, attacked>>

Init == GPIdle /\ CsvIdle /\ RunInit
Next ==
    \/ CallPrune
    \/ RunStart
    \/ RunTrain
    \/ RunEarlyAttack
    \/ RunPrune
    \/ RunQuantize
    \/ RunLateAttack
    \/ RunTransfer
    \/ RunEvaluate
    \/ RunUpdateCsv
    \/ RunEnd
Spec == Init /\ [][Next]_vars

\* run() was called on the experiment.
InRun == pc \notin {"idle", "prune_returned", "prune_raised"}

\* The exceptions that come from outside the experiment: a collaborator
\* raised, or the connection to the mail server failed.
ExternalErrors == {"CollaboratorError", "OSError"}

\* The rows in the log file.
RowsInLog ==
    IF file = Absent THEN 0
    ELSE Cardinality({i \in DOMAIN Content(file) : Content(file)[i].kind = "row"})

\* An attack, if one is configured, was given attack_kwargs with a 'train'
\* entry.
AttackArgsUsable ==
    \/ args.attack_method = None /\ args.transfer_attack_model = None
    \/ args.attack_kwargs # None /\ "train" \in DOMAIN Val(args.attack_kwargs)

\* C1: a run in which no collaborator raises is not left by an exception, and
\* when it ends exactly one row has been appended to the log.
C1_RunAppendsOneRow ==
    AttackArgsUsable =>
        /\ pc = "raised" => err \in ExternalErrors
        /\ pc = "done" => RowsInLog = 1

\* C14: constructing an experiment with only_transfer true and without
\* resume, a model path or a transfer model raises an AssertionError, and no
\* directory was made and no path resolved when it does.
C14_OnlyTransferAsserted ==
    (/\ args.only_transfer
     /\ ~(args.resume /\ args.model_path # None /\ args.transfer_attack_model # None)) =>
        /\ ctor_pc = "failed"
        /\ err = "AssertionError"
        /\ dirs = {Root}
        /\ exp.paths = << >>
        /\ exp.name = None

\* A construction with only_transfer, resume and a model path, but without a
\* transfer model, failed.
C14_Witness ==
    /\ ctor_pc = "failed"
    /\ args.only_transfer /\ args.resume /\ args.model_path # None
    /\ args.transfer_attack_model = None
    /\ err = "AssertionError"
    /\ dirs = {Root}

\* The non-transfer attack() calls and the evaluator invocations made so far.
NonTransferAttacks == {i \in DOMAIN calls : calls[i].op = "attack" /\ ~calls[i].flag}
Evaluations == {i \in DOMAIN calls : calls[i].op = "Model_Evaluator"}

\* C5: with attack_method set, skip_attack false and only_transfer false, a
\* run never makes a second non-transfer attack() call, and when the
\* evaluator is invoked exactly one such call has been made and the
\* evaluator's attack flag is false.
C5_AttackRunsOnce ==
    (InRun /\ TruthyStr(exp.attack_method) /\ ~exp.skip_attack /\ ~exp.only_transfer) =>
        /\ Cardinality(NonTransferAttacks) <= 1
        /\ \A i \in Evaluations :
            /\ Cardinality(NonTransferAttacks) = 1
            /\ \A j \in NonTransferAttacks : j < i
            /\ ~calls[i].flag

\* A model was trained and pruned, not quantized, attacked once after the
\* pruning, and the evaluator has been invoked.
C5_Witness ==
    /\ pc = "L331"
    /\ TruthyStr(exp.attack_method) /\ ~exp.skip_attack /\ ~exp.only_transfer
    /\ TruthyStr(exp.prune_method) /\ exp.quantization = None
    /\ \E t, q, a, e \in DOMAIN calls :
        /\ t < q /\ q < a /\ a < e
        /\ calls[t].op = "TrainingExperiment"
        /\ calls[q].op = "PruningExperiment"
        /\ NonTransferAttacks = {a}
        /\ calls[e].op = "Model_Evaluator" /\ ~calls[e].flag

\* C15: with only_transfer true a run calls neither train, prune nor
\* quantize, makes no non-transfer attack() call, and invokes the evaluator
\* with its attack flag false.
C15_OnlyTransferOnly ==
    (InRun /\ exp.only_transfer) =>
        \A i \in DOMAIN calls :
            /\ calls[i].op \notin {"train", "prune", "quantize"}
            /\ calls[i].op = "attack" => calls[i].flag
            /\ calls[i].op = "Model_Evaluator" => ~calls[i].flag

\* C16: the pruning collaborator is only invoked on an experiment that has a
\* model path; a prune() call on an experiment without one raises an
\* AssertionError and invokes nothing.
C16_PruneGated ==
    \A i \in DOMAIN calls :
        /\ calls[i].op = "PruningExperiment" => calls[i].model_path # None
        /\ (calls[i].op = "prune" /\ calls[i].model_path = None) =>
                /\ i = Len(calls)
                /\ err = "AssertionError"
                /\ pc \in {"raised", "prune_raised"}

\* prune() was called on an experiment with prune_method set and no model
\* path, before any training.
C16_Witness ==
    /\ pc = "prune_raised"
    /\ err = "AssertionError"
    /\ TruthyStr(exp.prune_method) /\ exp.model_path = None
    /\ Len(calls) = 1 /\ calls[1].op = "prune"

\* The stages of a run in the order of run(): a stage is entered where its
\* method is called or, for the evaluation, where the evaluator is invoked.
\* A non-transfer attack is the early one when neither prune() nor quantize()
\* was entered before it.
StageOps == {"train", "attack", "prune", "quantize", "Model_Evaluator", "update_csv"}
Entries == SelectSeq(calls, LAMBDA c : c.op \in StageOps)
Rank(entries, i) ==
    IF entries[i].op = "train" THEN 1
    ELSE IF entries[i].op = "attack" /\ entries[i].flag THEN 6
    ELSE IF entries[i].op = "attack"
    THEN IF \E j \in 1..(i - 1) : entries[j].op \in {"prune", "quantize"} THEN 5 ELSE 2
    ELSE IF entries[i].op = "prune" THEN 3
    ELSE IF entries[i].op = "quantize" THEN 4
    ELSE IF entries[i].op = "Model_Evaluator" THEN 7
    ELSE 8

\* C19: the stages of a run are entered in the order train, early attack,
\* prune, quantize, late attack, transfer attack, evaluate, log, each at most
\* once and the non-transfer attack at most once, early or late; the log is
\* appended only after the evaluation.
C19_StageOrder ==
    InRun =>
        /\ \A i, j \in DOMAIN Entries : i < j => Rank(Entries, i) < Rank(Entries, j)
        /\ Cardinality(NonTransferAttacks) <= 1
        /\ \A j \in DOMAIN Entries :
            Entries[j].op = "update_csv" => \E i \in 1..(j - 1) : Entries[i].op = "Model_Evaluator"

\* A run trained, pruned, quantized, attacked, made the transfer attack,
\* evaluated, logged and ended.
C19_Witness ==
    /\ pc = "done"
    /\ [i \in DOMAIN Entries |-> Entries[i].op] =
           <<"train", "prune", "quantize", "attack", "attack", "Model_Evaluator", "update_csv">>

\* A run trained, attacked the trained model, evaluated, logged and ended.
C19_WitnessEarly ==
    /\ pc = "done"
    /\ [i \in DOMAIN Entries |-> Entries[i].op] =
           <<"train", "attack", "attack", "Model_Evaluator", "update_csv">>

\* The transfer attack() calls made so far, and the attack experiments
\* constructed with and without a transfer model.
TransferAttacks == {i \in DOMAIN calls : calls[i].op = "attack" /\ calls[i].flag}
AttackExperiments(transfer) ==
    {i \in DOMAIN calls : calls[i].op = "AttackExperiment" /\ calls[i].flag = transfer}

\* C20: in a run with transfer_attack_model configured, attack(transfer=True)
\* is called at most once and after every non-transfer attack() call; when
\* the evaluator is invoked it has been called exactly once; and it finds
\* the attack_kwargs, 'train' included, that the non-transfer attack found,
\* and hands its AttackExperiment the same arguments.
C20_OneTransferAttack ==
    (InRun /\ exp.transfer_attack_model # None) =>
        /\ Cardinality(TransferAttacks) <= 1
        /\ \A i \in Evaluations :
            /\ Cardinality(TransferAttacks) = 1
            /\ \A t \in TransferAttacks : t < i
        /\ \A t \in TransferAttacks : \A n \in NonTransferAttacks :
            /\ n < t
            /\ calls[t].kwargs = calls[n].kwargs
            /\ calls[t].kwargs # None /\ "train" \in DOMAIN Val(calls[t].kwargs)
        /\ \A t \in AttackExperiments(TRUE) : \A n \in AttackExperiments(FALSE) :
            /\ n < t
            /\ calls[t].kwargs = calls[n].kwargs
            /\ calls[t].model_path = calls[n].model_path

\* A run made a non-transfer attack and then the transfer attack, both with
\* their attack experiment, and the evaluator has been invoked.
C20_Witness ==
    /\ pc = "L331"
    /\ exp.transfer_attack_model # None
    /\ NonTransferAttacks # {} /\ AttackExperiments(FALSE) # {}
    /\ TransferAttacks # {} /\ AttackExperiments(TRUE) # {}
    /\ Evaluations # {}

\* A run with skip_attack made the transfer attack alone and the evaluator
\* has been invoked.
C20_WitnessAlone ==
    /\ pc = "L331"
    /\ exp.skip_attack /\ ~exp.only_transfer
    /\ NonTransferAttacks = {} /\ AttackExperiments(TRUE) # {}
    /\ Evaluations # {}

\* The end-of-attack notification points reached so far.
AttackMails == {i \in DOMAIN mails : mails[i].at = "attack"}

\* C21: in a run with email_verbose, every attack() call whose attack
\* experiment ran to its end, transfer or not, reached its end-of-attack
\* notification: there is one notification per stored attack result.
C21_AttackNotified ==
    (InRun /\ exp.email_verbose) =>
        Cardinality(AttackMails) =
            (IF exp.attack_results # None THEN 1 ELSE 0)
            + (IF "transfer_results" \notin exp.unset THEN 1 ELSE 0)

\* C24: after a non-transfer attack() call of a run, train, prune and
\* quantize are not entered and their collaborators are not invoked, and
\* every later call, the evaluator's included, finds the model_path that the
\* attack found, which is the model_path of the experiment from then on.
C24_AttackTargetsFinalModel ==
    InRun =>
        \A n \in NonTransferAttacks :
            /\ exp.model_path = calls[n].model_path
            /\ \A j \in DOMAIN calls :
                j > n => /\ calls[j].op \notin {"train", "TrainingExperiment", "prune",
                                                "PruningExperiment", "quantize"}
                         /\ calls[j].model_path = calls[n].model_path

\* A model was trained from scratch and attacked right after the training,
\* and the evaluator has been invoked on it.
C24_Witness ==
    /\ pc = "L331"
    /\ exp.train_from_scratch
    /\ \E n \in NonTransferAttacks, i \in Evaluations :
        /\ n < i
        /\ calls[n].model_path # None
        /\ calls[i].model_path = calls[n].model_path
        /\ \E t \in 1..(n - 1) : calls[t].op = "TrainingExperiment"

\* The collaborators of the stages.
Collaborators == {"TrainingExperiment", "PruningExperiment", "AttackExperiment",
                  "Model_Evaluator"}

\* C25: when a collaborator raised in a stage of run(), the exception has
\* left run(): the collaborator's invocation is the last call made, no
\* update_csv call was made and no row is in the log, and the end-of-experiment
\* notification was not reached.
C25_CollaboratorFailurePropagates ==
    (InRun /\ err = "CollaboratorError") =>
        /\ pc = "raised"
        /\ calls # << >> /\ calls[Len(calls)].op \in Collaborators
        /\ \A i \in DOMAIN calls : calls[i].op # "update_csv"
        /\ RowsInLog = 0
        /\ \A i \in DOMAIN mails : mails[i].at # "end"

\* The pruning collaborator raised after the model was trained.
C25_Witness ==
    /\ pc = "raised" /\ err = "CollaboratorError"
    /\ calls[Len(calls)].op = "PruningExperiment"
    /\ \E i \in DOMAIN calls : calls[i].op = "TrainingExperiment"

\* The identity of the experiment: the fields that the folder name is made
\* of, the folder name and the paths.
Identity == {"experiment_number", "dataset", "model_type", "quantization", "prune_method",
             "prune_compression", "finetune_epochs", "name", "paths"}

\* The identity is as it was when the constructor returned.
IdentityKept == \A f \in Identity : exp[f] = orig[f]

\* C27: throughout a run the identity is as the constructor left it, and so
\* is every other configuration field but model_path; model_path differs
\* from the constructor's only after the training or the pruning
\* collaborator was invoked.
C27_RunKeepsConfiguration ==
    InRun =>
        /\ IdentityKept
        /\ \A f \in DOMAIN Defaults \ {"model_path"} : exp[f] = orig[f]
        /\ exp.model_path # orig.model_path =>
            \E i \in DOMAIN calls : calls[i].op \in {"TrainingExperiment", "PruningExperiment"}

\* C8: no run is left by an exception that the email callback raised.
C8_NotificationNeverAborts ==
    ~(pc = "raised" /\ mails # << >> /\ err = mails[Len(mails)].outcome)

-----------------------------------------------------------------------------
(* SpecPath: an experiment is constructed, then a second one on its model  *)

InitPath == GPIdle /\ CsvIdle /\ CtorInit /\ RunIdle
NextPath == CtorFresh \/ CtorResume \/ CheckAgain
SpecPath == InitPath /\ [][NextPath]_vars

\* The fields of the configuration that the folder-name grammar captures.
Captured == {"experiment_number", "model_type", "dataset", "quantization",
             "prune_method", "prune_compression", "finetune_epochs"}

\* The data-model invariants of a configuration: pruning comes with a
\* compression above 1 and a number of finetune epochs.
SatisfiesInvariants(c) ==
    TruthyStr(c.prune_method) =>
        /\ c.prune_compression # None /\ Val(c.prune_compression) > 1
        /\ c.finetune_epochs # None /\ Val(c.finetune_epochs) >= 0

\* Only model_path and resume = true were passed to the constructor.
OnlyPathSupplied ==
    args = [Defaults EXCEPT !.model_path = args.model_path, !.resume = TRUE]

\* C9: resuming from a path under the folder built for a configuration, with
\* no other field supplied, succeeds and yields the configuration's values
\* for the captured fields.
C9_DecodeInvertsEncode ==
    (ctor_pc = "resumed" /\ OnlyPathSupplied /\ SatisfiesInvariants(orig)) =>
        /\ err = NoError
        /\ \A f \in Captured : exp[f] = orig[f]

\* The quantization that the folder name of the model path encodes.
Encoded(first) == IF TruthyInt(first.quantization) THEN first.quantization ELSE None

\* C10: on a path that encodes quantization p, resuming with a supplied
\* quantization q fails when q differs from p and succeeds when q equals p.
C10_QuantizationConflict ==
    (/\ ctor_pc = "resumed"
     /\ args.resume
     /\ Encoded(orig) # None
     /\ args.quantization # None
     /\ args.experiment_number = orig.experiment_number
     /\ args.model_type = orig.model_type
     /\ args.dataset = orig.dataset) =>
        IF args.quantization = Encoded(orig) THEN err = NoError ELSE err = "ValueError"

\* C12: a second call of check_folder_structure with the arguments of the
\* first raises nothing, returns the same folder name and the same paths,
\* and leaves the directories on disk as they are.
C12_CheckIsIdempotent ==
    [][ctor_pc' = "checked" =>
        /\ err' = NoError
        /\ exp'.name = exp.name
        /\ exp'.paths = exp.paths
        /\ dirs' = dirs]_vars

\* The folders of a pruned model were there when they were checked again.
C12_Witness ==
    /\ ctor_pc = "checked"
    /\ err = NoError
    /\ TruthyStr(exp.prune_method)
    /\ exp.paths.model \in dirs
    /\ In("compression", exp.paths.model)

\* C13: an experiment constructed without a model path, with prune_method
\* set, is only built if prune_compression is a number above 1 and
\* finetune_epochs is a non-negative integer, whatever the other fields are.
C13_PruningValidated ==
    (ctor_pc \in {"built", "failed"} /\ TruthyStr(args.prune_method)) =>
        (err = NoError =>
            /\ args.prune_compression # None /\ Val(args.prune_compression) > 1
            /\ args.finetune_epochs # None /\ Val(args.finetune_epochs) >= 0)

\* The folder name of the model path encodes a pruning configuration.
PathEncodesPruning ==
    /\ TruthyStr(orig.prune_method) /\ SatisfiesInvariants(orig)
    /\ In("compression", Val(args.model_path))

\* The caller passed the identity of the first experiment, with a nonzero
\* experiment number.
IdentitySupplied ==
    /\ TruthyInt(args.experiment_number)
    /\ args.experiment_number = orig.experiment_number
    /\ args.model_type = orig.model_type
    /\ args.dataset = orig.dataset

\* C22: resuming from a path whose folder name encodes a pruning
\* configuration, with the identity supplied and prune_method,
\* prune_compression and finetune_epochs left at the constructor defaults,
\* succeeds and yields the three values that the path encodes.
C22_ResumeFillsPruning ==
    (/\ ctor_pc = "resumed" /\ args.resume
     /\ PathEncodesPruning /\ IdentitySupplied
     /\ args.prune_method = Defaults.prune_method
     /\ args.prune_compression = Defaults.prune_compression
     /\ args.finetune_epochs = Defaults.finetune_epochs) =>
        /\ err = NoError
        /\ exp.prune_method = orig.prune_method
        /\ exp.prune_compression = orig.prune_compression
        /\ exp.finetune_epochs = orig.finetune_epochs

\* The caller supplied a prune_method or a finetune_epochs whose encoding
\* does not occur in the model path (lines 233 and 245).
PruningMismatch ==
    \/ /\ TruthyStr(args.prune_method)
       /\ ~In(Val(args.prune_method), Val(args.model_path))
    \/ /\ TruthyInt(args.finetune_epochs)
       /\ ~In(FmtInt(args.finetune_epochs) \o "_finetune_iterations", Val(args.model_path))

\* The path has a compression marker and the supplied prune_compression
\* matches it.
AlreadyPruned ==
    /\ TruthyInt(args.prune_compression)
    /\ In("compression", Val(args.model_path))
    /\ In(FmtInt(args.prune_compression) \o "_compression", Val(args.model_path))

\* C23: on resume with the identity supplied and pruning fields that satisfy
\* the data-model invariants, a supplied prune_method or finetune_epochs that
\* does not occur in the path is rejected with a ValueError when the path has
\* a compression marker that the supplied prune_compression matches, and is
\* tolerated when the path has no compression marker: the construction
\* succeeds and keeps the supplied values.
C23_AsymmetricConflict ==
    (/\ ctor_pc = "resumed" /\ args.resume
     /\ IdentitySupplied /\ SatisfiesInvariants(args)
     /\ PruningMismatch) =>
        /\ AlreadyPruned => err = "ValueError"
        /\ ~In("compression", Val(args.model_path)) =>
            /\ err = NoError
            /\ TruthyStr(args.prune_method) => exp.prune_method = args.prune_method
            /\ TruthyInt(args.finetune_epochs) => exp.finetune_epochs = args.finetune_epochs

\* C26: a construction that fails with the ValueError of a resume conflict
\* or the AssertionError of the pruning validation leaves the directories on
\* disk as they were and invokes no collaborator.
C26_ConfigErrorsLeaveDisk ==
    [][(ctor_pc' \in {"failed", "resumed"} /\ err' \in {"ValueError", "AssertionError"}) =>
        /\ dirs' = dirs
        /\ calls' = calls]_vars

\* A fresh construction failed the pruning validation in an empty root.
C26_Witness ==
    /\ ctor_pc = "failed" /\ err = "AssertionError"
    /\ TruthyStr(args.prune_method) /\ ~SatisfiesInvariants(args)
    /\ dirs = {Root}

\* A resume was rejected for a conflict with the path, beside the folders of
\* the first experiment.
C26_WitnessResume ==
    /\ ctor_pc = "resumed" /\ err = "ValueError"
    /\ orig.paths.model \in dirs

\* A configuration in which the pruning fields say one thing: pruning comes
\* with a compression above 1 and finetune epochs, and without pruning the
\* compression is at its default.
Canonical(a) ==
    /\ SatisfiesInvariants(a)
    /\ a.prune_method = None => a.prune_compression = Defaults.prune_compression

\* The folder name that check_folder_structure computes for a configuration,
\* with the exception it raises, if any.
NameOf(a) ==
    FolderName(a.model_type, a.quantization, a.prune_method, a.finetune_epochs,
               a.prune_compression)

\* C28: the folder name built for a configuration differs from the folder
\* name of every other accepted configuration with the same model_type that
\* differs from it in quantization, prune_method, prune_compression or
\* finetune_epochs.
C28_FolderNameUnique ==
    (ctor_pc = "built" /\ err = NoError /\ Canonical(args)) =>
        \A b \in FreshArgs :
            (/\ Canonical(b) /\ NameOf(b).err = NoError
             /\ b.model_type = args.model_type
             /\ \E f \in {"quantization", "prune_method", "prune_compression",
                           "finetune_epochs"} : b[f] # args[f]) =>
                NameOf(b).name # Val(exp.name)

\* The text that lines 178, 185 and 192 look for in the model path for a
\* supplied experiment_number, model_type and dataset.
Marker(field, value) ==
    IF field = "experiment_number" THEN "experiment_" \o FmtInt(value) ELSE Val(value)

\* C11: a second experiment is constructed on a model path: each supplied
\* experiment_number, model_type and dataset that does not occur in the path
\* makes the construction fail with a ValueError, and if the construction
\* succeeds the object holds the supplied values and its paths are built
\* from them.
C11_SuppliedIdentityChecked ==
    ctor_pc = "resumed" =>
        \A f \in {"experiment_number", "model_type", "dataset"} :
            args[f] # None =>
                IF ~In(Marker(f, args[f]), Val(args.model_path))
                THEN err = "ValueError"
                ELSE err = NoError =>
                        /\ exp[f] = args[f]
                        /\ In(Marker(f, args[f]), exp.paths.model)

-----------------------------------------------------------------------------
(* SpecCsv: the processes run update_csv concurrently.                     *)
(* SpecCsvSeq: a call starts when no other call is running.                *)

InitCsv == GPIdle /\ CsvInit /\ CtorIdle /\ RunIdle /\ err = NoError
NextCsv == \E p \in Procs : CsvStep(p)
SpecCsv == InitCsv /\ [][NextCsv]_vars

NextCsvSeq == \E p \in Procs : Alone(p) /\ CsvStep(p)
SpecCsvSeq == InitCsv /\ [][NextCsvSeq]_vars

\* The calls that have returned, and the lines of each kind in the file.
CallsDone == LET RECURSIVE Sum(_)
                 Sum(p) == IF p = 0 THEN 0 ELSE procs[p].n + Sum(p - 1)
             IN  Sum(NProcs)
AllIdle == \A p \in Procs : procs[p].pc = "idle"
NumLines == IF file = Absent THEN 0 ELSE Len(Content(file))
Lines(kind) == {i \in 1..NumLines : Content(file)[i].kind = kind}

\* C6: once all concurrent calls have returned, the file is one header line,
\* its first line, followed by one row for every call.
C6_ConcurrentAppendsKeepLog ==
    (AllIdle /\ CallsDone > 0) =>
        /\ file # Absent
        /\ Lines("header") = {1}
        /\ NumLines = 1 + CallsDone
        /\ \A p \in Procs : \A n \in 1..procs[p].n :
              Cardinality({i \in 1..NumLines : Content(file)[i] = Row(p, n)}) = 1

\* C7: in a sequence of calls the file changes only by the creating call's
\* open, by that call writing the header into the empty file, and by one row
\* appended to a file that starts with the header; the earlier lines stay.
C7_FileStep ==
    \/ file' = file
    \/ /\ file = Absent
       /\ file' = File(<< >>)
       /\ \E p \in Procs : procs[p].pc = "L490" /\ procs'[p].pc = "L492"
    \/ /\ file = File(<< >>)
       /\ file' = File(<<Header>>)
       /\ \E p \in Procs : procs[p].pc = "L492" /\ procs'[p].pc = "L493"
    \/ /\ file # Absent
       /\ NumLines >= 1
       /\ Content(file)[1] = Header
       /\ \E p \in Procs :
            /\ procs[p].pc = "L495"
            /\ procs'[p].n = procs[p].n + 1
            /\ file' = File(Append(Content(file), Row(p, procs'[p].n)))

C7_HeaderWrittenOnce ==
    /\ [][C7_FileStep]_vars
    /\ [](AllIdle /\ CallsDone > 0 =>
            /\ Lines("header") = {1}
            /\ Lines("fragment") = {}
            /\ NumLines = 1 + CallsDone)

\* C7 witness: three calls have returned, the log holds the header and
\* their three rows.
C7_Witness ==
    /\ AllIdle
    /\ CallsDone >= 3
    /\ file # Absent
    /\ NumLines = 1 + CallsDone
    /\ Content(file)[1] = Header
    /\ \A i \in 2..NumLines : Content(file)[i].kind = "row"

-----------------------------------------------------------------------------
(* SpecPerm *)

InitPerm == GPInit /\ CsvIdle /\ CtorIdle /\ RunIdle /\ err = NoError
NextPerm == GPWhile \/ GPReturn
SpecPerm == InitPerm /\ [][NextPerm]_vars

\* The parameters of the call and their candidates.
GPParams == {gp_input[i][1] : i \in 1..Len(gp_input)}
GPCands(p) == LET i == CHOOSE i \in 1..Len(gp_input) : gp_input[i][1] = p
              IN  gp_input[i][2]
GPDuplicateFree ==
    \A i \in 1..Len(gp_input) :
        LET c == gp_input[i][2] IN \A j, k \in 1..Len(c) : c[j] = c[k] => j = k
RECURSIVE Product(_, _)
Product(s, i) == IF i > Len(s) THEN 1 ELSE Len(s[i][2]) * Product(s, i + 1)

\* C2: with duplicate-free candidate lists the returned list has as many
\* entries as the product of the candidate-list lengths, and no two are equal.
C2_NoDuplicates ==
    (gp_pc = "returned" /\ GPDuplicateFree /\ GPParams # {}) =>
        /\ Len(permutations) = Product(gp_input, 1)
        /\ \A i, j \in 1..Len(permutations) :
              permutations[i] = permutations[j] => i = j

\* C3: every choice of one candidate per parameter is in the returned list
\* (for the mapping without parameters the function returns the empty list).
C3_NoCombinationDropped ==
    gp_pc = "returned" =>
        IF GPParams = {} THEN permutations = << >>
        ELSE \A choice \in [GPParams -> 1..MaxVals] :
                (\A p \in GPParams : choice[p] \in SeqToSet(GPCands(p))) =>
                    \E i \in 1..Len(permutations) : permutations[i] = choice

\* C3 witness: a sweep of two parameters or more, one of them with three
\* candidates, has returned all its combinations.
C3_Witness ==
    /\ gp_pc = "returned"
    /\ Len(gp_input) >= 2
    /\ \E i \in 1..Len(gp_input) : Len(gp_input[i][2]) >= 3
    /\ \A i \in 1..Len(gp_input) : Len(gp_input[i][2]) >= 2
    /\ GPDuplicateFree
    /\ Len(permutations) >= Product(gp_input, 1)

\* C4: every returned dictionary has exactly the parameters of the input as
\* its keys, each with one of that parameter's candidates as its value.
C4_FullySpecified ==
    gp_pc = "returned" =>
        \A i \in 1..Len(permutations) :
            /\ DOMAIN permutations[i] = GPParams
            /\ \A p \in GPParams : permutations[i][p] \in SeqToSet(GPCands(p))

-----------------------------------------------------------------------------
(* Experiment.update_csv, lines 450-497: the record and the lines written.  *)
(* The experiments that log to one file call update_csv one after the       *)
(* other. The record is an insertion ordered dict, and a line of the log is *)
(* the sequence of its cells.                                               *)

\* Bound: the update_csv calls on one log.
MaxAppends == 2

\* Lines 456-463
Columns ==
    <<"timestamp", "debug", "name", "experiment_number", "dataset", "model_type",
      "model_path", "best_model_metric", "quantization", "prune_method",
      "prune_compression", "finetune_epochs", "attack_method", "attack_kwargs",
      "email_verbose", "gpu", "save_one_checkpoint", "seed", "train_from_scratch",
      "train_kwargs", "prune_kwargs", "clean_train_acc1", "clean_train_acc5",
      "clean_val_acc1", "clean_val_acc5", "model_size", "model_size_nz",
      "compression_ratio", "flops", "flops_nz", "theoretical_speedup", "adv_acc1",
      "adv_acc5", "transfer_model", "transfer_attack_results">>

\* Lines 283-288
Variables ==
    <<"name", "experiment_number", "dataset", "model_type", "model_path",
      "best_model_metric", "quantization", "prune_method", "prune_compression",
      "finetune_epochs", "attack_method", "attack_kwargs", "email_verbose",
      "gpu", "debug", "save_one_checkpoint", "seed", "train_from_scratch",
      "train_kwargs", "prune_kwargs", "dataset", "skip_attack",
      "only_transfer", "transfer_attack_model">>

\* d.keys(), key in d, d[key], d[key] = val, d.update(e), d.pop(key) and
\* {x: val for x in keys} on an insertion ordered dict
Keys(d) == [i \in DOMAIN d |-> d[i][1]]
HasKey(d, key) == \E i \in DOMAIN d : d[i][1] = key
GetItem(d, key) == d[CHOOSE i \in DOMAIN d : d[i][1] = key][2]
PutItem(d, key, val) ==
    IF HasKey(d, key)
    THEN [i \in DOMAIN d |-> IF d[i][1] = key THEN <<key, val>> ELSE d[i]]
    ELSE Append(d, <<key, val>>)
RECURSIVE UpdateDict(_, _)
UpdateDict(d, e) ==
    IF e = << >> THEN d ELSE UpdateDict(PutItem(d, e[1][1], e[1][2]), Tail(e))
DelItem(d, key) == SelectSeq(d, LAMBDA item : item[1] # key)
FromKeys(keys, val) == [i \in DOMAIN keys |-> <<keys[i], val>>]

\* getattr(self, x) for x in variables, line 290. The arguments that the
\* model of __init__ leaves at their defaults (lines 38, 51-54) read as those
\* defaults, and train_kwargs and prune_kwargs as the dicts that
\* get_hyperparameters returned (line 132).
GetAttr(self, x) ==
    IF x \in {"best_model_metric", "gpu", "seed"} THEN None
    ELSE IF x \in {"debug", "save_one_checkpoint"} THEN Some(FALSE)
    ELSE IF x \in {"train_kwargs", "prune_kwargs"} THEN Some([train_kwargs |-> << >>])
    ELSE IF x \in {"email_verbose", "train_from_scratch", "skip_attack", "only_transfer"}
    THEN Some(self[x])
    ELSE self[x]

\* Lines 289-296 and line 469: json.loads(json.dumps(params)). A Path was
\* made a str (line 290), and None, bool, int, str and dict come back as they
\* went in; a key listed twice stays where it was first.
Params(self) ==
    UpdateDict(<< >>, [i \in DOMAIN Variables |-> <<Variables[i], GetAttr(self, Variables[i])>>])

\* strftime("%Y%m%d-%H%M%S") of datetime.now(), lines 281 and 467. An instant
\* is <<second, tenth of a second>> after midnight.
strftime(t) == "20200101-0000" \o (IF t[1] < 10 THEN "0" ELSE "") \o IntToStr(t[1])

\* A slip in lines 472-476: adv_results is not flattened.
NotFlattened(ev, self) == ev

\* Lines 471-480
Flattened(ev, self) ==
    IF HasKey(ev, "adv_results")
    THEN PutItem(PutItem(DelItem(ev, "adv_results"),
                         "adv_acc1", Some(Val(GetItem(ev, "adv_results")).adv_acc1)),
                 "adv_acc5", Some(Val(GetItem(ev, "adv_results")).adv_acc5))
    ELSE IF self.attack_results # None
    THEN UpdateDict(ev, <<<<"adv_acc1", Some(Val(self.attack_results).adv_acc1)>>,
                          <<"adv_acc5", Some(Val(self.attack_results).adv_acc5)>>>>)
    ELSE ev

\* Lines 484-486
WithTransfer(results, self) ==
    IF self.transfer_results # << >>
    THEN PutItem(PutItem(results, "transfer_model", Some(self.transfer_model_path)),
                 "transfer_attack_results", Some(self.transfer_results))
    ELSE results

\* Lines 465-486: the record of the experiment self with the evaluation
\* results ev, at the instant t
Results(self, ev, t) ==
    WithTransfer(
        UpdateDict(
            UpdateDict(PutItem(FromKeys(Columns, None), "timestamp", Some(strftime(t))),
                       Params(self)),
            Flattened(ev, self)),
        self)

\* What csv.DictWriter writes for a value: nothing for None, str(value)
\* otherwise; the str of a dict is left open.
Cell(key, val) ==
    IF val = None THEN ""
    ELSE IF key \in {"debug", "email_verbose", "save_one_checkpoint", "train_from_scratch",
                     "skip_attack", "only_transfer"}
    THEN IF Val(val) THEN "True" ELSE "False"
    ELSE IF key \in {"attack_kwargs", "train_kwargs", "prune_kwargs", "adv_results",
                     "transfer_attack_results"}
    THEN "{...}"
    ELSE IF key \in {"timestamp", "name", "dataset", "model_type", "model_path", "prune_method",
                     "attack_method", "transfer_model", "transfer_attack_model"}
    THEN Val(val)
    ELSE IntToStr(Val(val))

\* writer.writeheader() and writer.writerow(results) of a DictWriter with
\* fieldnames, lines 491 and 495
HeaderLine(fieldnames) == fieldnames
RowLine(fieldnames, results) ==
    [i \in DOMAIN fieldnames |-> Cell(fieldnames[i], GetItem(results, fieldnames[i]))]

\* Lines 488-495 with fieldnames = results.keys()
LogAppended(f, results) ==
    WriteRow(OpenA(IF Exists(f) THEN f ELSE WriteRow(OpenW(f), HeaderLine(Keys(results)))),
             RowLine(Keys(results), results))

\* What the evaluator returns (line 329): the clean accuracies and the size,
\* compression and FLOPs metrics, in one order or the other, and adv_results
\* when it attacked.
Metrics == SubSeq(Columns, 22, 31)
CleanResults == {[i \in DOMAIN Metrics |-> <<Metrics[i], Some(90 + i)>>],
                 [i \in DOMAIN Metrics |-> <<Metrics[11 - i], Some(80 - i)>>]}
AdvResults == Some([adv_acc1 |-> 10, adv_acc5 |-> 30])
EvalResults == CleanResults \cup {Append(ev, <<"adv_results", AdvResults>>) : ev \in CleanResults}

\* The experiments that reach update_csv: constructed, with or without the
\* results of an attack (line 439), and without a transfer attack or with the
\* results of one (lines 433-435), which may be empty.
LogArgs ==
    {[Defaults EXCEPT !.experiment_number = Some(1), !.dataset = Some("CIFAR10"),
                      !.model_type = Some("VGG"), !.quantization = q,
                      !.attack_method = Some("pgd"),
                      !.attack_kwargs = Some([train |-> TRUE, nb_iter |-> 7])] :
     q \in {None, Some(8)}}
TransferResults == {<< >>, <<<<"adv_acc1", 12>>, <<"adv_acc5", 32>>>>}
LogSelves ==
    {[Construct(a, {Root}).self EXCEPT !.attack_results = ar] : 
        a \in LogArgs, ar \in {None, Some([adv_acc1 |-> 11, adv_acc5 |-> 31])}}
    \cup
    {[rec \in {"attack_results", "transfer_results", "transfer_model_path", "unset"} |->
         IF rec = "attack_results" THEN ar
         ELSE IF rec = "transfer_results" THEN tr
         ELSE IF rec = "transfer_model_path" THEN TransferModel
         ELSE {}]
        @@ Construct(a, {Root}).self :
     a \in LogArgs,
     ar \in {None, Some([adv_acc1 |-> 11, adv_acc5 |-> 31])},
     tr \in TransferResults}

LogInit ==
    /\ file = Absent
    /\ err = NoError
    /\ calls = << >>
    /\ procs = << >>
    /\ pc = "idle" /\ attacked = FALSE /\ mails = << >>
    /\ GPIdle /\ CtorIdle

\* One experiment calls update_csv. The call is recorded with what it was
\* given, the fieldnames it used, the keys of its record that hold None, and
\* the number of the line it wrote (0 when it raised).
UpdateCsv ==
    /\ Len(calls) < MaxAppends
    /\ \E self \in LogSelves, ev \in EvalResults :
        IF "transfer_results" \in self.unset                             \* 484
        THEN /\ file' = file
             /\ err' = "AttributeError"
             /\ calls' = Append(calls, [op |-> "update_csv", line |-> 0])
        ELSE \E results \in {Results(self, ev, <<Len(calls), 0>>)} :
            /\ file' = LogAppended(file, results)
            /\ err' = NoError
            /\ calls' = Append(calls,
                               [op |-> "update_csv",
                                adv |-> HasKey(ev, "adv_results"),
                                attacked |-> self.attack_results # None,
                                fieldnames |-> Keys(results),
                                nulls |-> {results[i][1] : i \in {j \in DOMAIN results :
                                                                  results[j][2] = None}},
                                line |-> IF Exists(file) THEN Len(Content(file)) + 1 ELSE 2])
    /\ UNCHANGED <<gpVars, procs, ctorVars, pc, attacked, mails>>

NextLog == UpdateCsv
SpecLog == LogInit /\ [][NextLog]_vars

\* C17: every update_csv call writes its row under the columns of the header:
\* the fieldnames of the call are the header of the log, in its order, the
\* row has one cell per column, and a column whose value is None in the
\* record has its (empty) cell in the row.
C17_SchemaStable ==
    \A i \in {j \in DOMAIN calls : calls[j].line > 0} :
        /\ calls[i].fieldnames = Content(file)[1]
        /\ Len(Content(file)[calls[i].line]) = Len(Content(file)[1])
        /\ SubSeq(Content(file)[1], 1, Len(Columns)) = Columns
        /\ \A k \in DOMAIN calls[i].fieldnames :
            calls[i].fieldnames[k] \in calls[i].nulls => Content(file)[calls[i].line][k] = ""

\* Two rows were appended to one log, one from evaluation results with
\* adv_results and one without the results of any attack.
C17_Witness ==
    \E i, j \in {k \in DOMAIN calls : calls[k].line > 0} :
        /\ calls[i].adv
        /\ ~calls[j].adv /\ ~calls[j].attacked /\ "adv_acc1" \in calls[j].nulls
        /\ Len(Content(file)) = 3

-----------------------------------------------------------------------------
(* Experiment.save_variables, lines 278-302: the snapshot files of one      *)
(* model folder. The constructor writes the first (line 151); the others    *)
(* are written by later calls on the experiment.                            *)

\* Bounds: the seconds that pass, and the save_variables calls.
MaxSeconds == 2
MaxSaves == 3

\* The values of datetime.now(): <<second, tenth of a second>>
Instants == {<<s, f>> : s \in 0..MaxSeconds, f \in {0, 5}}
Before(t, u) == t[1] < u[1] \/ (t[1] = u[1] /\ t[2] < u[2])

\* Line 282
params_path(self, t) == Join(self.paths.model, "experiment_params_" \o strftime(t) \o ".json")

\* Lines 299-301: open(params_path, "w") creates the file, or truncates the
\* one that is there.
save_variables(self, disk, t, write) ==
    IF write THEN disk \cup {params_path(self, t)} ELSE disk

SnapArgs ==
    {[Defaults EXCEPT !.experiment_number = Some(1), !.dataset = Some("CIFAR10"),
                      !.model_type = Some("VGG"), !.quantization = q] :
     q \in {None, Some(8)}}

\* Experiment(**a) returned at the instant t: line 151 wrote the first snapshot.
SnapInit ==
    /\ \E a \in SnapArgs, t \in Instants : \E made \in {Construct(a, {Root})} :
        /\ args = a /\ exp = made.self /\ orig = made.self
        /\ dirs = save_variables(made.self, made.dirs, t, TRUE)
        /\ calls = <<[op |-> "save_variables", write |-> TRUE, at |-> t]>>
    /\ ctor_pc = "built"
    /\ err = NoError
    /\ pc = "idle" /\ attacked = FALSE /\ mails = << >>
    /\ GPIdle /\ CsvIdle

\* A later save_variables(write) call on the experiment
SaveVariables ==
    /\ Len(calls) < MaxSaves
    /\ \E t \in Instants, write \in BOOLEAN :
        /\ Before(calls[Len(calls)].at, t)
        /\ dirs' = save_variables(exp, dirs, t, write)
        /\ calls' = Append(calls, [op |-> "save_variables", write |-> write, at |-> t])
    /\ UNCHANGED <<gpVars, csvVars, args, exp, orig, ctor_pc, err, pc, attacked, mails>>

NextSnap == SaveVariables
SpecSnap == SnapInit /\ [][NextSnap]_vars

\* The snapshot files in the model folder
Snapshots == {f \in dirs : In(Join(exp.paths.model, "experiment_params_"), f)}

\* C18: after k save_variables calls with write enabled the model folder
\* holds k snapshot files.
C18_SnapshotPerCall ==
    Cardinality(Snapshots) = Cardinality({i \in DOMAIN calls : calls[i].write})

=============================================================================
